---- MODULE Spec2Model ----
(***************************************************************************)
(* Model of the rummage frontier queue: ScraperRedisClient                 *)
(* (src/common/common/scraper_redis_client.py) on top of RedisClientBase   *)
(* (src/common/common/redis_client_base.py), run by several client         *)
(* processes against one shared Redis server.                              *)
(*                                                                         *)
(* Every action is one round trip to the server (Redis executes each       *)
(* command, and each MULTI/EXEC block, atomically), together with the      *)
(* local computation of the client that follows it.                       *)
(*                                                                         *)
(* redis-py: self._client is a redis.Redis object (redis_client_base.py    *)
(* line 70).  Redis.watch() and Redis.unwatch() only emit a                *)
(* DeprecationWarning ("Call WATCH from a Pipeline object") and send       *)
(* nothing to the server; the Pipeline created afterwards by               *)
(* self._client.pipeline() has no watched key, so its EXEC is never        *)
(* aborted and redis.WatchError is never raised.  ClaimWatch and           *)
(* ClaimExecute below model exactly that.                                  *)
(*                                                                         *)
(* Init and InitReady have every client hold a connection that connect()   *)
(* has established; InitHandle has the client objects as __init__ leaves   *)
(* them, for the connection handling of RedisClientBase.                   *)
(***************************************************************************)
EXTENDS Integers, Sequences, FiniteSets, TLC

\* ---------------------------------------------------------------- bounds
NumClients == 2
MaxAdds == 2
MaxTime == 2

Clients == 1..NumClients
Urls == {"http://a.com", "http://b.com"}

\* ------------------------------------------------------ program constants
KEY_DOMAIN_ENTRY_ID == "domain_entry_id"
DOMAIN_ENTRY_BY_TIMESTAMP_SET == "domain_entries_by_timestamp"
DOMAIN_ENTRY_ASSIGNED_TO_NODE_SET == "domain_entries_assigned_to_node"
KEY_DOMAIN_ENTRY_PREFIX == "NODE_ENTRY:"
DOMAIN_ASSIGNMENT_STATUS_ASSIGNED == "assigned"
DOMAIN_ASSIGNMENT_STATUS_UNASSIGNED == "unassigned"

DEFAULT_HOST == "localhost"
DEFAULT_PORT == 6379

\* ---------------------------------------------------------- Python values
\* An optional value: <<>> is None, <<v>> is the value v.
PyNone == <<>>

PyVal(v) == <<v>>

\* -------------------------------------------------------- finite functions
EmptyFcn == [x \in {} |-> 0]

Put(f, k, v) == [x \in DOMAIN f \cup {k} |-> IF x = k THEN v ELSE f[x]]

Del(f, K) == [x \in DOMAIN f \ K |-> f[x]]

\* ------------------------------------------------------------------ state
VARIABLES
    strings,    \* Redis string keys: key -> integer value
    hashes,     \* Redis hash keys: key -> (field -> value)
    zsets,      \* Redis sorted sets: name -> (member -> score)
    now,        \* int(time.time())
    pc,         \* position of each client process
    loc,        \* local variables of the call each client is running
    done,       \* what the call a client has just finished gave its caller
    won,        \* history: <<client, key>> for each committed claim transaction
    skipped,    \* history: <<client, key>> for each candidate found not unassigned
                \* (both since the last moment no claim invocation was running)
    dirty,      \* history: the key the client watches was written by another client
    contended,  \* history: another client ran a claim step during this invocation
    front,      \* history: the unassigned set as it was at the client's snapshot
    run,        \* history: results of consecutive undisturbed claim invocations
    runFront,   \* history: the unassigned set when that run began
    runOK,      \* history: nothing but the run's own invocations acted since it began
    added,      \* history: URLs for which add_domain_entry has completed
    allocs,     \* history: values returned by increment_field_value, in order
    handle,     \* the fields _client, _host and _port of each client object
    session     \* history: does the handle have a connection that connect()
                \* has pinged and disconnect() has not closed since

store == <<strings, hashes, zsets>>

ghosts == <<won, skipped, dirty, contended, front, run, runFront, runOK, added, allocs>>

vars == <<strings, hashes, zsets, now, pc, loc, done, won, skipped, dirty,
          contended, front, run, runFront, runOK, added, allocs, handle, session>>

\* ------------------------------------------------------- Redis commands
\* EXISTS key, as called by field_exists: a key of any type; a sorted set
\* exists exactly while it has a member.
Exists(key) ==
    \/ key \in DOMAIN strings
    \/ key \in DOMAIN hashes
    \/ key \in DOMAIN zsets /\ DOMAIN zsets[key] # {}

\* INCRBY key 2 instead.
Incr_by2(s, key) == Put(s, key, (IF key \in DOMAIN s THEN s[key] ELSE 0) + 2)

\* INCR key: an absent key counts as 0.
Incr(s, key) == Put(s, key, (IF key \in DOMAIN s THEN s[key] ELSE 0) + 1)

\* HGET key field: None when the key or the field is absent.
HGet(h, key, field) ==
    IF key \in DOMAIN h /\ field \in DOMAIN h[key]
    THEN PyVal(h[key][field])
    ELSE PyNone

\* HSET key field value: creates the hash when absent.
HSet(h, key, field, value) ==
    Put(h, key, Put(IF key \in DOMAIN h THEN h[key] ELSE EmptyFcn, field, value))

\* HSET key mapping: all fields of the mapping in one command.
HSetMapping(h, key, mapping) ==
    LET old == IF key \in DOMAIN h THEN h[key] ELSE EmptyFcn
    IN  Put(h, key, [f \in DOMAIN old \cup DOMAIN mapping |->
                        IF f \in DOMAIN mapping THEN mapping[f] ELSE old[f]])

ZAdd(z, name, member, score) == [z EXCEPT ![name] = Put(@, member, score)]

\* ZREM left out of the transaction.
ZRem_kept(z, name, member) == z

ZRem(z, name, member) == [z EXCEPT ![name] = Del(@, {member})]

\* The f-string of add_domain_entry: None is formatted as "None".
Key(entry_id) ==
    KEY_DOMAIN_ENTRY_PREFIX \o
        (IF entry_id = PyNone THEN "None" ELSE ToString(entry_id[1]))

\* Byte order of the entry keys, which Redis uses to order equal scores:
\* the digits sort before "N".
KeyRank(k) ==
    IF k = Key(PyNone) THEN 10 ELSE CHOOSE n \in 1..9 : Key(PyVal(n)) = k

ZLess(z, a, b) ==
    \/ z[a] < z[b]
    \/ z[a] = z[b] /\ KeyRank(a) < KeyRank(b)

RECURSIVE ZSorted(_, _)
ZSorted(z, S) ==
    IF S = {} THEN <<>>
    ELSE LET m == CHOOSE a \in S : \A b \in S \ {a} : ZLess(z, a, b)
         IN  <<m>> \o ZSorted(z, S \ {m})

\* ZREVRANGEBYSCORE instead: every member, descending by score.
ZRangeByScore_rev(z) ==
    LET asc == ZSorted(z, DOMAIN z)
    IN  [j \in 1..Len(asc) |-> asc[Len(asc) + 1 - j]]

\* ZRANGEBYSCORE name -inf +inf: every member, ascending by score.
ZRangeByScore(z) == ZSorted(z, DOMAIN z)

\* Every id that add_domain_entry can format into a key.
EntryKeys == {Key(PyNone)} \cup {Key(PyVal(n)) : n \in 1..9}

\* add_to_sorted_set(name, mapping): ZADD of each member with its score.
add_to_sorted_set(z, name, mapping) ==
    [z EXCEPT ![name] = [m \in DOMAIN @ \cup DOMAIN mapping |->
                            IF m \in DOMAIN mapping THEN mapping[m] ELSE @[m]]]

\* count_keys_with_prefix(prefix): the number of entry records.
count_keys_with_prefix(h) == Cardinality(DOMAIN h \cap EntryKeys)

\* delete_keys_with_prefix(prefix): every entry record is deleted.
delete_keys_with_prefix(h) == Del(h, DOMAIN h \cap EntryKeys)

\* clear_sorted_set(name): the sorted set loses all its members.
clear_sorted_set(z, name) == [z EXCEPT ![name] = EmptyFcn]

\* ---------------------------------------------------------- client state
ClaimLabels == {"for", "hget_status", "hget_timestamp", "execute", "hget_url"}

Watching == {"hget_status", "hget_timestamp", "execute"}

Loc0 == [force |-> FALSE, domain |-> "", timestamp |-> 0, entry_id |-> PyNone,
         entry_key |-> "", entries |-> <<>>, i |-> 0]

Done0 == [op |-> "", ret |-> PyNone, raised |-> "", printed |-> <<>>]

Returned(op, printed) ==
    [op |-> op, ret |-> PyNone, raised |-> "", printed |-> printed]

Raised(op, exc) ==
    [op |-> op, ret |-> PyNone, raised |-> exc, printed |-> <<>>]

Quiet(c) == \A d \in Clients \ {c} : pc[d] \in {"idle", "crashed"}

\* The client object as __init__ leaves it: no Redis object yet.
Unconnected == [client |-> "None", host |-> DEFAULT_HOST, port |-> DEFAULT_PORT]

\* The client object after connect(hostname, port_number) has succeeded.
Connected(hostname, port_number) ==
    [client |-> "Redis", host |-> hostname, port |-> port_number]

\* ------------------------------------------------------ history helpers
\* A step of client c that belongs to a claim invocation.
ClaimStepGhost(c, mine) ==
    contended' = [d \in Clients |->
                    IF d = c THEN mine
                    ELSE IF pc[d] \in ClaimLabels THEN TRUE ELSE contended[d]]

\* A write of another client to the key that a client is watching.
Touch(c, keys) ==
    dirty' = [d \in Clients |->
                IF d # c /\ pc[d] \in Watching /\ loc[d].entry_key \in keys
                THEN TRUE ELSE dirty[d]]

\* A step that is not part of the run of undisturbed claim invocations.
Disturb ==
    /\ runOK' = FALSE
    /\ run' = <<>>
    /\ runFront' = EmptyFcn

\* The end of a claim invocation, with the key it reports ("" for none).
RunEnd(key) ==
    /\ run' = IF runOK THEN Append(run, key) ELSE run
    /\ UNCHANGED <<runFront, runOK>>

Init ==
    /\ strings = EmptyFcn
    /\ hashes = EmptyFcn
    /\ zsets = [n \in {DOMAIN_ENTRY_BY_TIMESTAMP_SET,
                       DOMAIN_ENTRY_ASSIGNED_TO_NODE_SET} |-> EmptyFcn]
    /\ now = 1
    /\ pc = [c \in Clients |-> "idle"]
    /\ loc = [c \in Clients |-> Loc0]
    /\ done = [c \in Clients |-> Done0]
    /\ won = {}
    /\ skipped = {}
    /\ dirty = [c \in Clients |-> FALSE]
    /\ contended = [c \in Clients |-> FALSE]
    /\ front = [c \in Clients |-> EmptyFcn]
    /\ run = <<>>
    /\ runFront = EmptyFcn
    /\ runOK = FALSE
    /\ added = {}
    /\ allocs = <<>>
    /\ handle = [c \in Clients |-> Connected(DEFAULT_HOST, DEFAULT_PORT)]
    /\ session = [c \in Clients |-> "open"]

\* The clock of time.time(), in seconds.
Tick ==
    /\ now < MaxTime
    /\ now' = now + 1
    /\ UNCHANGED <<strings, hashes, zsets, pc, loc, done>>
    /\ UNCHANGED ghosts
    /\ UNCHANGED <<handle, session>>

\* ------------------------------------------- find_and_assign_oldest_entry
\* Lines 168-169: the invocation reads the whole unassigned set once.
ClaimScan(c) ==
    /\ pc[c] = "idle"
    /\ pc' = [pc EXCEPT ![c] = "for"]
    /\ loc' = [loc EXCEPT ![c] =
                 [Loc0 EXCEPT !.entries = ZRangeByScore(zsets[DOMAIN_ENTRY_BY_TIMESTAMP_SET]),
                              !.i = 1]]
    /\ done' = [d \in Clients |-> Done0]
    /\ front' = [front EXCEPT ![c] = zsets[DOMAIN_ENTRY_BY_TIMESTAMP_SET]]
    /\ dirty' = [dirty EXCEPT ![c] = FALSE]
    /\ ClaimStepGhost(c, FALSE)
    /\ IF Quiet(c)
       THEN IF runOK /\ Len(run) <= Cardinality(DOMAIN runFront)
            THEN UNCHANGED <<run, runFront, runOK>>
            ELSE /\ run' = <<>>
                 /\ runFront' = zsets[DOMAIN_ENTRY_BY_TIMESTAMP_SET]
                 /\ runOK' = TRUE
       ELSE Disturb
    /\ IF \A d \in Clients \ {c} : pc[d] \notin ClaimLabels
       THEN won' = {} /\ skipped' = {}
       ELSE UNCHANGED <<won, skipped>>
    /\ UNCHANGED <<strings, hashes, zsets, now, added, allocs>>
    /\ UNCHANGED <<handle, session>>

\* The candidate is locked in its record instead of being watched.
ClaimWatch_lock(c) ==
    /\ pc[c] = "for"
    /\ loc[c].i <= Len(loc[c].entries)
    /\ pc' = [pc EXCEPT ![c] = "hget_status"]
    /\ loc' = [loc EXCEPT ![c].entry_key = loc[c].entries[loc[c].i]]
    /\ hashes' = HSet(hashes, loc[c].entries[loc[c].i], "node_assignment",
                      ToString(c))
    /\ dirty' = [dirty EXCEPT ![c] = FALSE]
    /\ ClaimStepGhost(c, contended[c])
    /\ UNCHANGED <<strings, zsets, now, done, won, skipped, front,
                   run, runFront, runOK, added, allocs>>
    /\ UNCHANGED <<handle, session>>

\* Lines 171-173: the next candidate of the snapshot; Redis.watch sends nothing.
ClaimWatch(c) ==
    /\ pc[c] = "for"
    /\ loc[c].i <= Len(loc[c].entries)
    /\ pc' = [pc EXCEPT ![c] = "hget_status"]
    /\ loc' = [loc EXCEPT ![c].entry_key = loc[c].entries[loc[c].i]]
    /\ dirty' = [dirty EXCEPT ![c] = FALSE]
    /\ ClaimStepGhost(c, contended[c])
    /\ UNCHANGED <<strings, hashes, zsets, now, done, won, skipped, front,
                   run, runFront, runOK, added, allocs>>
    /\ UNCHANGED <<handle, session>>

\* The loop of line 166 without the return of line 213: the set is read again.
ClaimNone_rescan(c) ==
    /\ pc[c] = "for"
    /\ loc[c].i > Len(loc[c].entries)
    /\ loc' = [loc EXCEPT ![c].entries =
                   ZRangeByScore(zsets[DOMAIN_ENTRY_BY_TIMESTAMP_SET]),
                          ![c].i = 1]
    /\ front' = [front EXCEPT ![c] = zsets[DOMAIN_ENTRY_BY_TIMESTAMP_SET]]
    /\ ClaimStepGhost(c, contended[c])
    /\ UNCHANGED <<strings, hashes, zsets, now, pc, done, dirty, won, skipped,
                   run, runFront, runOK, added, allocs>>
    /\ UNCHANGED <<handle, session>>

\* Lines 212-213: the snapshot is exhausted; the call prints and returns None.
ClaimNone(c) ==
    /\ pc[c] = "for"
    /\ loc[c].i > Len(loc[c].entries)
    /\ pc' = [pc EXCEPT ![c] = "idle"]
    /\ loc' = [loc EXCEPT ![c] = Loc0]
    /\ done' = [done EXCEPT ![c] =
                  Returned("claim", <<[msg |-> "No unassigned entries found.",
                                       key |-> "", url |-> "", timestamp |-> 0]>>)]
    /\ front' = [front EXCEPT ![c] = EmptyFcn]
    /\ dirty' = [dirty EXCEPT ![c] = FALSE]
    /\ ClaimStepGhost(c, FALSE)
    /\ RunEnd("")
    /\ UNCHANGED <<strings, hashes, zsets, now, won, skipped, added, allocs>>
    /\ UNCHANGED <<handle, session>>

\* The test of line 178 inverted: a candidate is taken when it is not unassigned.
ClaimStatus_neq(c) ==
    /\ pc[c] = "hget_status"
    /\ LET status == HGet(hashes, loc[c].entry_key, "assigned_status")
       IN  IF status = PyNone
           THEN /\ pc' = [pc EXCEPT ![c] = "idle"]
                /\ loc' = [loc EXCEPT ![c] = Loc0]
                /\ done' = [done EXCEPT ![c] = Raised("claim", "AttributeError")]
                /\ front' = [front EXCEPT ![c] = EmptyFcn]
                /\ dirty' = [dirty EXCEPT ![c] = FALSE]
                /\ ClaimStepGhost(c, FALSE)
                /\ Disturb
                /\ UNCHANGED skipped
           ELSE IF status[1] # DOMAIN_ASSIGNMENT_STATUS_UNASSIGNED
           THEN /\ pc' = [pc EXCEPT ![c] = "hget_timestamp"]
                /\ ClaimStepGhost(c, contended[c])
                /\ UNCHANGED <<loc, done, front, dirty, run, runFront, runOK, skipped>>
           ELSE /\ pc' = [pc EXCEPT ![c] = "for"]
                /\ loc' = [loc EXCEPT ![c].i = loc[c].i + 1, ![c].entry_key = ""]
                /\ skipped' = skipped \cup {<<c, loc[c].entry_key>>}
                /\ dirty' = [dirty EXCEPT ![c] = FALSE]
                /\ ClaimStepGhost(c, contended[c])
                /\ UNCHANGED <<done, front, run, runFront, runOK>>
    /\ UNCHANGED <<strings, hashes, zsets, now, won, added, allocs>>
    /\ UNCHANGED <<handle, session>>

\* Lines 176-178 and 209-210: the status read.  hget gives None for a missing
\* record and None.decode() raises AttributeError.
ClaimStatus(c) ==
    /\ pc[c] = "hget_status"
    /\ LET status == HGet(hashes, loc[c].entry_key, "assigned_status")
       IN  IF status = PyNone
           THEN /\ pc' = [pc EXCEPT ![c] = "idle"]
                /\ loc' = [loc EXCEPT ![c] = Loc0]
                /\ done' = [done EXCEPT ![c] = Raised("claim", "AttributeError")]
                /\ front' = [front EXCEPT ![c] = EmptyFcn]
                /\ dirty' = [dirty EXCEPT ![c] = FALSE]
                /\ ClaimStepGhost(c, FALSE)
                /\ Disturb
                /\ UNCHANGED skipped
           ELSE IF status[1] = DOMAIN_ASSIGNMENT_STATUS_UNASSIGNED
           THEN /\ pc' = [pc EXCEPT ![c] = "hget_timestamp"]
                /\ ClaimStepGhost(c, contended[c])
                /\ UNCHANGED <<loc, done, front, dirty, run, runFront, runOK, skipped>>
           ELSE /\ pc' = [pc EXCEPT ![c] = "for"]
                /\ loc' = [loc EXCEPT ![c].i = loc[c].i + 1, ![c].entry_key = ""]
                /\ skipped' = skipped \cup {<<c, loc[c].entry_key>>}
                /\ dirty' = [dirty EXCEPT ![c] = FALSE]
                /\ ClaimStepGhost(c, contended[c])
                /\ UNCHANGED <<done, front, run, runFront, runOK>>
    /\ UNCHANGED <<strings, hashes, zsets, now, won, added, allocs>>
    /\ UNCHANGED <<handle, session>>

\* Lines 180-191: the transaction is queued locally; the timestamp is read
\* outside it.  int(None) raises TypeError.
ClaimTimestamp(c) ==
    /\ pc[c] = "hget_timestamp"
    /\ LET timestamp == HGet(hashes, loc[c].entry_key, "timestamp")
       IN  IF timestamp = PyNone
           THEN /\ pc' = [pc EXCEPT ![c] = "idle"]
                /\ loc' = [loc EXCEPT ![c] = Loc0]
                /\ done' = [done EXCEPT ![c] = Raised("claim", "TypeError")]
                /\ front' = [front EXCEPT ![c] = EmptyFcn]
                /\ dirty' = [dirty EXCEPT ![c] = FALSE]
                /\ ClaimStepGhost(c, FALSE)
                /\ Disturb
           ELSE /\ pc' = [pc EXCEPT ![c] = "execute"]
                /\ loc' = [loc EXCEPT ![c].timestamp = timestamp[1]]
                /\ ClaimStepGhost(c, contended[c])
                /\ UNCHANGED <<done, front, dirty, run, runFront, runOK>>
    /\ UNCHANGED <<strings, hashes, zsets, now, won, skipped, added, allocs>>
    /\ UNCHANGED <<handle, session>>

\* The transaction also records the claiming node in the entry.
ClaimExecute_node(c) ==
    /\ pc[c] = "execute"
    /\ hashes' = HSet(HSet(hashes, loc[c].entry_key, "assigned_status",
                           DOMAIN_ASSIGNMENT_STATUS_ASSIGNED),
                      loc[c].entry_key, "node_assignment", ToString(c))
    /\ zsets' = ZAdd(ZRem(zsets, DOMAIN_ENTRY_BY_TIMESTAMP_SET, loc[c].entry_key),
                     DOMAIN_ENTRY_ASSIGNED_TO_NODE_SET, loc[c].entry_key,
                     loc[c].timestamp)
    /\ pc' = [pc EXCEPT ![c] = "hget_url"]
    /\ won' = won \cup {<<c, loc[c].entry_key>>}
    /\ Touch(c, {loc[c].entry_key})
    /\ ClaimStepGhost(c, contended[c])
    /\ UNCHANGED <<strings, now, loc, done, skipped, front, run, runFront,
                   runOK, added, allocs>>
    /\ UNCHANGED <<handle, session>>

\* Lines 184-197: MULTI, HSET, ZREM, ZADD, EXEC.  No key is watched on the
\* pipeline, so the block is always executed.
ClaimExecute(c) ==
    /\ pc[c] = "execute"
    /\ hashes' = HSet(hashes, loc[c].entry_key, "assigned_status",
                      DOMAIN_ASSIGNMENT_STATUS_ASSIGNED)
    /\ zsets' = ZAdd(ZRem(zsets, DOMAIN_ENTRY_BY_TIMESTAMP_SET, loc[c].entry_key),
                     DOMAIN_ENTRY_ASSIGNED_TO_NODE_SET, loc[c].entry_key,
                     loc[c].timestamp)
    /\ pc' = [pc EXCEPT ![c] = "hget_url"]
    /\ won' = won \cup {<<c, loc[c].entry_key>>}
    /\ Touch(c, {loc[c].entry_key})
    /\ ClaimStepGhost(c, contended[c])
    /\ UNCHANGED <<strings, now, loc, done, skipped, front, run, runFront,
                   runOK, added, allocs>>
    /\ UNCHANGED <<handle, session>>

\* Lines 200-203: after the commit the URL is read and printed; the call
\* returns None.
ClaimReturn(c) ==
    /\ pc[c] = "hget_url"
    /\ LET url == HGet(hashes, loc[c].entry_key, "URL")
       IN  /\ done' = [done EXCEPT ![c] =
                IF url = PyNone
                THEN Raised("claim", "AttributeError")
                ELSE Returned("claim", <<[msg |-> "Locked and moved entry",
                                          key |-> loc[c].entry_key,
                                          url |-> url[1],
                                          timestamp |-> loc[c].timestamp]>>)]
    /\ pc' = [pc EXCEPT ![c] = "idle"]
    /\ loc' = [loc EXCEPT ![c] = Loc0]
    /\ front' = [front EXCEPT ![c] = EmptyFcn]
    /\ dirty' = [dirty EXCEPT ![c] = FALSE]
    /\ ClaimStepGhost(c, FALSE)
    /\ IF HGet(hashes, loc[c].entry_key, "URL") = PyNone
       THEN Disturb
       ELSE RunEnd(loc[c].entry_key)
    /\ UNCHANGED <<strings, hashes, zsets, now, won, skipped, added, allocs>>
    /\ UNCHANGED <<handle, session>>

\* ------------------------------------------------------- add_domain_entry
\* Lines 147-155 and redis_client_base.py 286-290: the timestamp is taken,
\* then increment_field_value asks whether the counter exists and returns
\* None when it does not.
AddBegin(c, domain) ==
    /\ pc[c] = "idle"
    /\ Len(allocs) + Cardinality({d \in Clients : pc[d] = "add_incr"}) < MaxAdds
    /\ done' = [d \in Clients |-> Done0]
    /\ IF Exists(KEY_DOMAIN_ENTRY_ID)
       THEN /\ pc' = [pc EXCEPT ![c] = "add_incr"]
            /\ loc' = [loc EXCEPT ![c] =
                         [Loc0 EXCEPT !.domain = domain, !.timestamp = now]]
            /\ UNCHANGED allocs
       ELSE /\ pc' = [pc EXCEPT ![c] = "add_hset"]
            /\ loc' = [loc EXCEPT ![c] =
                         [Loc0 EXCEPT !.domain = domain, !.timestamp = now,
                                      !.entry_id = PyNone,
                                      !.entry_key = Key(PyNone)]]
            /\ allocs' = Append(allocs, PyNone)
    /\ Disturb
    /\ UNCHANGED <<strings, hashes, zsets, now, won, skipped, dirty, contended,
                   front, added>>
    /\ UNCHANGED <<handle, session>>

\* redis_client_base.py 292-293 and line 156: INCR, then the key is formatted.
AddIncr(c) ==
    /\ pc[c] = "add_incr"
    /\ strings' = Incr(strings, KEY_DOMAIN_ENTRY_ID)
    /\ LET entry_id == PyVal(strings'[KEY_DOMAIN_ENTRY_ID])
       IN  /\ loc' = [loc EXCEPT ![c].entry_id = entry_id,
                                 ![c].entry_key = Key(entry_id)]
           /\ allocs' = Append(allocs, entry_id)
    /\ pc' = [pc EXCEPT ![c] = "add_hset"]
    /\ Disturb
    /\ UNCHANGED <<hashes, zsets, now, done, won, skipped, dirty, contended,
                   front, added>>
    /\ UNCHANGED <<handle, session>>

\* Line 159 and redis_client_base.py 337-339: the record, in one HSET.
AddHSet(c) ==
    /\ pc[c] = "add_hset"
    /\ hashes' = HSetMapping(hashes, loc[c].entry_key,
                    [URL |-> loc[c].domain,
                     timestamp |-> loc[c].timestamp,
                     assigned_status |-> DOMAIN_ASSIGNMENT_STATUS_UNASSIGNED,
                     node_assignment |-> ""])
    /\ pc' = [pc EXCEPT ![c] = "add_zadd"]
    /\ Touch(c, {loc[c].entry_key})
    /\ Disturb
    /\ UNCHANGED <<strings, zsets, now, loc, done, won, skipped, contended,
                   front, added, allocs>>
    /\ UNCHANGED <<handle, session>>

\* Lines 162-163: add_to_sorted_set publishes the key in the unassigned set.
AddPublish(c) ==
    /\ pc[c] = "add_zadd"
    /\ zsets' = add_to_sorted_set(zsets, DOMAIN_ENTRY_BY_TIMESTAMP_SET,
                                  Put(EmptyFcn, loc[c].entry_key, loc[c].timestamp))
    /\ pc' = [pc EXCEPT ![c] = "idle"]
    /\ done' = [done EXCEPT ![c] = Returned("add", <<>>)]
    /\ added' = added \cup {loc[c].domain}
    /\ loc' = [loc EXCEPT ![c] = Loc0]
    /\ Disturb
    /\ UNCHANGED <<strings, hashes, now, won, skipped, dirty, contended,
                   front, allocs>>
    /\ UNCHANGED <<handle, session>>

\* ------------------------------------------------------- initialise_redis
\* Lines 91-92: does the id counter exist?
InitBegin(c, force) ==
    /\ pc[c] = "idle"
    /\ done' = [d \in Clients |-> Done0]
    /\ loc' = [loc EXCEPT ![c] = [Loc0 EXCEPT !.force = force]]
    /\ pc' = [pc EXCEPT ![c] =
                IF ~Exists(KEY_DOMAIN_ENTRY_ID) \/ force
                THEN "init_set" ELSE "init_count"]
    /\ Disturb
    /\ UNCHANGED <<strings, hashes, zsets, now, won, skipped, dirty, contended,
                   front, added, allocs>>
    /\ UNCHANGED <<handle, session>>

\* Lines 95 and 100: SET domain_entry_id 0.
InitSetCounter(c) ==
    /\ pc[c] = "init_set"
    /\ strings' = Put(strings, KEY_DOMAIN_ENTRY_ID, 0)
    /\ pc' = [pc EXCEPT ![c] = "init_count"]
    /\ Disturb
    /\ UNCHANGED <<hashes, zsets, now, loc, done, won, skipped, dirty,
                   contended, front, added, allocs>>
    /\ UNCHANGED <<handle, session>>

\* Lines 106-109: the entry records are counted, for the log only.
InitCount(c) ==
    /\ pc[c] = "init_count"
    /\ count_keys_with_prefix(hashes) \in Nat
    /\ pc' = [pc EXCEPT ![c] =
                IF loc[c].force THEN "init_delete" ELSE "init_zexists"]
    /\ Disturb
    /\ UNCHANGED <<strings, hashes, zsets, now, loc, done, won, skipped, dirty,
                   contended, front, added, allocs>>
    /\ UNCHANGED <<handle, session>>

\* Line 111: delete_keys_with_prefix removes every entry record.
InitDelete(c) ==
    /\ pc[c] = "init_delete"
    /\ hashes' = delete_keys_with_prefix(hashes)
    /\ pc' = [pc EXCEPT ![c] = "init_zexists"]
    /\ Touch(c, DOMAIN hashes \cap EntryKeys)
    /\ Disturb
    /\ UNCHANGED <<strings, zsets, now, loc, done, won, skipped, contended,
                   front, added, allocs>>
    /\ UNCHANGED <<handle, session>>

\* Lines 115-122: does the unassigned set exist?  Without force, or without
\* the set, the call ends here; it has no return statement.
InitZExists(c) ==
    /\ pc[c] = "init_zexists"
    /\ IF Exists(DOMAIN_ENTRY_BY_TIMESTAMP_SET) /\ loc[c].force
       THEN /\ pc' = [pc EXCEPT ![c] = "init_clear"]
            /\ UNCHANGED <<loc, done>>
       ELSE /\ pc' = [pc EXCEPT ![c] = "idle"]
            /\ loc' = [loc EXCEPT ![c] = Loc0]
            /\ done' = [done EXCEPT ![c] = Returned("init", <<>>)]
    /\ Disturb
    /\ UNCHANGED <<strings, hashes, zsets, now, won, skipped, dirty, contended,
                   front, added, allocs>>
    /\ UNCHANGED <<handle, session>>

\* Line 118: clear_sorted_set empties the unassigned set, and only that one.
InitClear(c) ==
    /\ pc[c] = "init_clear"
    /\ zsets' = clear_sorted_set(zsets, DOMAIN_ENTRY_BY_TIMESTAMP_SET)
    /\ pc' = [pc EXCEPT ![c] = "idle"]
    /\ loc' = [loc EXCEPT ![c] = Loc0]
    /\ done' = [done EXCEPT ![c] = Returned("init", <<>>)]
    /\ Disturb
    /\ UNCHANGED <<strings, hashes, now, won, skipped, dirty, contended,
                   front, added, allocs>>
    /\ UNCHANGED <<handle, session>>

\* ------------------------------------------------------- RedisClientBase
\* The calls of RedisClientBase on one client object.  A Redis object sends
\* a command over a connection of its pool and opens one when it has none,
\* also after close(); reply is what the server side gives: "ok", or
\* "ConnectionError" when it cannot be reached.
scraper == <<zsets, now, pc, loc, won, skipped, dirty, contended, front, run,
             runFront, runOK, added, allocs>>

Hosts == {DEFAULT_HOST, "10.0.0.2"}

\* What self._client.ping() gives: True for the server's PONG, or
\* redis.ConnectionError when the server cannot be reached.
Pings == {"True", "ConnectionError"}

Replies == {"ok", "ConnectionError"}

HashKeys == {Key(PyVal(1))}

NO_CONNECTION == "No connection to Redis server"

Outcome(op, ret, exc, args) ==
    [op |-> op, ret |-> ret, raised |-> exc, printed |-> <<>>, args |-> args]

Finish(c, outcome) ==
    done' = [d \in Clients |-> IF d = c THEN outcome ELSE Done0]

\* Lines 66-86: the Redis object is stored before the ping; host and port
\* only after a ping that gave a true value.  A false value falls through
\* to "return status"; redis.ConnectionError becomes RuntimeError.
connect(c, hostname, port_number, ping) ==
    /\ pc[c] = "idle"
    /\ handle' = [handle EXCEPT ![c] =
                    IF ping = "True"
                    THEN Connected(hostname, port_number)
                    ELSE [client |-> "Redis", host |-> handle[c].host,
                          port |-> handle[c].port]]
    /\ session' = [session EXCEPT ![c] = IF ping = "True" THEN "open" ELSE "none"]
    /\ Finish(c, CASE ping = "True" -> Outcome("connect", PyVal(TRUE), "", <<>>)
                   [] ping = "False" -> Outcome("connect", PyVal(FALSE), "", <<>>)
                   [] OTHER -> Outcome("connect", PyNone, "RuntimeError",
                                       [msg |-> "Failed to connect to Redis",
                                        host |-> hostname, port |-> port_number,
                                        reason |-> ping]))
    /\ UNCHANGED store
    /\ UNCHANGED scraper

\* Lines 100-101: close() when there is a Redis object; _client is kept.
disconnect(c) ==
    /\ pc[c] = "idle"
    /\ session' = [session EXCEPT ![c] =
                     IF handle[c].client # "None" /\ session[c] = "open"
                     THEN "closed" ELSE session[c]]
    /\ Finish(c, Outcome("disconnect", PyNone, "", <<>>))
    /\ UNCHANGED <<store, handle>>
    /\ UNCHANGED scraper

\* Lines 212-215.
set_field_value(c, key, value, reply) ==
    /\ pc[c] = "idle"
    /\ IF handle[c].client = "None"
       THEN /\ Finish(c, Outcome("set_field_value", PyNone, "RuntimeError", NO_CONNECTION))
            /\ UNCHANGED strings
       ELSE IF reply = "ok"
       THEN /\ strings' = Put(strings, key, value)
            /\ Finish(c, Outcome("set_field_value", PyNone, "", <<>>))
       ELSE /\ Finish(c, Outcome("set_field_value", PyNone, "redis.ConnectionError", <<>>))
            /\ UNCHANGED strings
    /\ UNCHANGED <<hashes, zsets, handle, session>>
    /\ UNCHANGED <<now, pc, loc, won, skipped, dirty, contended, front, run,
                   runFront, runOK, added, allocs>>

\* Lines 236-239.
get_field_value(c, key, reply) ==
    /\ pc[c] = "idle"
    /\ Finish(c, IF handle[c].client = "None"
                 THEN Outcome("get_field_value", PyNone, "RuntimeError", NO_CONNECTION)
                 ELSE IF reply = "ok"
                 THEN Outcome("get_field_value",
                              IF key \in DOMAIN strings THEN PyVal(strings[key])
                              ELSE PyNone, "", <<>>)
                 ELSE Outcome("get_field_value", PyNone, "redis.ConnectionError", <<>>))
    /\ UNCHANGED <<store, handle, session>>
    /\ UNCHANGED scraper

\* Lines 259-262: EXISTS gives the number of keys found.
field_exists(c, key, reply) ==
    /\ pc[c] = "idle"
    /\ Finish(c, IF handle[c].client = "None"
                 THEN Outcome("field_exists", PyNone, "RuntimeError", NO_CONNECTION)
                 ELSE IF reply = "ok"
                 THEN Outcome("field_exists",
                              PyVal(IF Exists(key) THEN 1 ELSE 0), "", <<>>)
                 ELSE Outcome("field_exists", PyNone, "redis.ConnectionError", <<>>))
    /\ UNCHANGED <<store, handle, session>>
    /\ UNCHANGED scraper

\* Lines 286-296, the EXISTS and the INCR taken together (AddBegin and
\* AddIncr take them apart): None for an absent key.
increment_field_value(c, key, reply) ==
    /\ pc[c] = "idle"
    /\ key \in DOMAIN strings => strings[key] < MaxAdds
    /\ IF handle[c].client = "None"
       THEN /\ Finish(c, Outcome("increment_field_value", PyNone, "RuntimeError",
                                 NO_CONNECTION))
            /\ UNCHANGED strings
       ELSE IF reply # "ok"
       THEN /\ Finish(c, Outcome("increment_field_value", PyNone,
                                 "redis.ConnectionError", <<>>))
            /\ UNCHANGED strings
       ELSE IF ~Exists(key)
       THEN /\ Finish(c, Outcome("increment_field_value", PyNone, "", <<>>))
            /\ UNCHANGED strings
       ELSE /\ strings' = Incr(strings, key)
            /\ Finish(c, Outcome("increment_field_value", PyVal(strings'[key]), "", <<>>))
    /\ UNCHANGED <<hashes, zsets, handle, session>>
    /\ UNCHANGED scraper

\* Line 190: no test of _client; None.hget raises AttributeError.
get_hash_field_value(c, key, field, reply) ==
    /\ pc[c] = "idle"
    /\ Finish(c, IF handle[c].client = "None"
                 THEN Outcome("get_hash_field_value", PyNone, "AttributeError", <<>>)
                 ELSE IF reply = "ok"
                 THEN Outcome("get_hash_field_value", HGet(hashes, key, field), "", <<>>)
                 ELSE Outcome("get_hash_field_value", PyNone, "redis.ConnectionError", <<>>))
    /\ UNCHANGED <<store, handle, session>>
    /\ UNCHANGED scraper

\* Lines 134-137 and 323-335: a connection error of HSET becomes RuntimeError.
set_hash_field_value(c, key, field, value, reply) ==
    /\ pc[c] = "idle"
    /\ IF handle[c].client = "None"
       THEN /\ Finish(c, Outcome("set_hash_field_value", PyNone, "RuntimeError",
                                 NO_CONNECTION))
            /\ UNCHANGED hashes
       ELSE IF reply = "ok"
       THEN /\ hashes' = HSet(hashes, key, field, value)
            /\ Finish(c, Outcome("set_hash_field_value", PyNone, "", <<>>))
       ELSE /\ Finish(c, Outcome("set_hash_field_value", PyNone, "RuntimeError",
                                 "Connection issue with Redis server"))
            /\ UNCHANGED hashes
    /\ UNCHANGED <<strings, zsets, handle, session>>
    /\ UNCHANGED scraper

\* Lines 161-164 and 338-350.
set_hash_field_values(c, key, field_values, reply) ==
    /\ pc[c] = "idle"
    /\ IF handle[c].client = "None"
       THEN /\ Finish(c, Outcome("set_hash_field_values", PyNone, "RuntimeError",
                                 NO_CONNECTION))
            /\ UNCHANGED hashes
       ELSE IF reply = "ok"
       THEN /\ hashes' = HSetMapping(hashes, key, field_values)
            /\ Finish(c, Outcome("set_hash_field_values", PyNone, "", <<>>))
       ELSE /\ Finish(c, Outcome("set_hash_field_values", PyNone, "RuntimeError",
                                 "Connection issue with Redis server"))
            /\ UNCHANGED hashes
    /\ UNCHANGED <<strings, zsets, handle, session>>
    /\ UNCHANGED scraper

\* ---------------------------------------------------------------- crash
\* A client process dies in the middle of a call: it takes no further step
\* and the server keeps what was committed.
Crash(c) ==
    /\ pc[c] \notin {"idle", "crashed"}
    /\ pc' = [pc EXCEPT ![c] = "crashed"]
    /\ loc' = [loc EXCEPT ![c] =
                 [Loc0 EXCEPT !.entry_key =
                     IF pc[c] \in Watching THEN loc[c].entry_key ELSE ""]]
    /\ front' = [front EXCEPT ![c] = EmptyFcn]
    /\ dirty' = [dirty EXCEPT ![c] = FALSE]
    /\ contended' = [contended EXCEPT ![c] = FALSE]
    /\ Disturb
    /\ UNCHANGED <<strings, hashes, zsets, now, done, won, skipped, added, allocs>>
    /\ UNCHANGED <<handle, session>>

\* ------------------------------------------------------- specifications
Claim(c) ==
    \/ ClaimScan(c)
    \/ ClaimWatch(c)
    \/ ClaimNone(c)
    \/ ClaimStatus(c)
    \/ ClaimTimestamp(c)
    \/ ClaimExecute(c)
    \/ ClaimReturn(c)

Add(c) ==
    \/ \E domain \in Urls : AddBegin(c, domain)
    \/ AddIncr(c)
    \/ AddHSet(c)
    \/ AddPublish(c)

Initialise(c, forces) ==
    \/ \E force \in forces : InitBegin(c, force)
    \/ InitSetCounter(c)
    \/ InitCount(c)
    \/ InitDelete(c)
    \/ InitZExists(c)
    \/ InitClear(c)

\* Any client may call any method at any time, on a store that starts empty.
Next ==
    \/ \E c \in Clients : Claim(c)
    \/ \E c \in Clients : Add(c)
    \/ \E c \in Clients : Initialise(c, BOOLEAN)
    \/ \E c \in Clients : Crash(c)
    \/ Tick

Spec == Init /\ [][Next]_vars

\* The store after initialise_redis() has run once on an empty server; from
\* there on the clients only add and claim entries.
InitReady ==
    /\ strings = Put(EmptyFcn, KEY_DOMAIN_ENTRY_ID, 0)
    /\ hashes = EmptyFcn
    /\ zsets = [n \in {DOMAIN_ENTRY_BY_TIMESTAMP_SET,
                       DOMAIN_ENTRY_ASSIGNED_TO_NODE_SET} |-> EmptyFcn]
    /\ now = 1
    /\ pc = [c \in Clients |-> "idle"]
    /\ loc = [c \in Clients |-> Loc0]
    /\ done = [c \in Clients |-> Done0]
    /\ won = {}
    /\ skipped = {}
    /\ dirty = [c \in Clients |-> FALSE]
    /\ contended = [c \in Clients |-> FALSE]
    /\ front = [c \in Clients |-> EmptyFcn]
    /\ run = <<>>
    /\ runFront = EmptyFcn
    /\ runOK = FALSE
    /\ added = {}
    /\ allocs = <<>>
    /\ handle = [c \in Clients |-> Connected(DEFAULT_HOST, DEFAULT_PORT)]
    /\ session = [c \in Clients |-> "open"]

NextReady ==
    \/ \E c \in Clients : Claim(c)
    \/ \E c \in Clients : Add(c)
    \/ \E c \in Clients : Crash(c)
    \/ Tick

ReadySpec == InitReady /\ [][NextReady]_vars

\* One worker and one producer at a time: a client calls
\* find_and_assign_oldest_entry only while no other client is inside it, and
\* add_domain_entry only while no other client is inside that; a claim
\* invocation and an add_domain_entry call still interleave freely.
AddLabels == {"add_incr", "add_hset", "add_zadd"}

ClaimInTurn(c) ==
    /\ pc[c] = "idle" => \A d \in Clients \ {c} : pc[d] \notin ClaimLabels
    /\ Claim(c)

AddInTurn(c) ==
    /\ pc[c] = "idle" => \A d \in Clients \ {c} : pc[d] \notin AddLabels
    /\ Add(c)

NextTurn ==
    \/ \E c \in Clients : ClaimInTurn(c)
    \/ \E c \in Clients : AddInTurn(c)
    \/ \E c \in Clients : Crash(c)
    \/ Tick

TurnSpec == InitReady /\ [][NextTurn]_vars

\* One call at a time: a client runs a method only while every other
\* client is at rest or dead.
NextSeq ==
    \/ \E c \in Clients : Quiet(c) /\ Claim(c)
    \/ \E c \in Clients : Quiet(c) /\ Add(c)
    \/ \E c \in Clients : Crash(c)
    \/ Tick

SeqSpec == InitReady /\ [][NextSeq]_vars

\* A worker process may die as long as another client is left to run.
CrashSome(c) ==
    /\ \E d \in Clients \ {c} : pc[d] # "crashed"
    /\ Crash(c)

NextFair ==
    \/ \E c \in Clients : Claim(c)
    \/ \E c \in Clients : Add(c)
    \/ \E c \in Clients : CrashSome(c)
    \/ Tick

\* Every client that is alive goes on: it finishes the call it is in and
\* calls find_and_assign_oldest_entry again.
FairReadySpec ==
    /\ InitReady
    /\ [][NextFair]_vars
    /\ \A c \in Clients : WF_vars(Claim(c)) /\ WF_vars(Add(c))

\* initialise_redis(force=False) only.
InitialiseGentle(c) ==
    \/ InitBegin(c, FALSE)
    \/ InitSetCounter(c)
    \/ InitCount(c)
    \/ InitZExists(c)

NextGentle ==
    \/ \E c \in Clients : Claim(c)
    \/ \E c \in Clients : Add(c)
    \/ \E c \in Clients : InitialiseGentle(c)
    \/ Tick

\* No forced reset and no crash; every client goes on.
GentleSpec ==
    /\ Init
    /\ [][NextGentle]_vars
    /\ \A c \in Clients : WF_vars(Claim(c)) /\ WF_vars(Add(c))

\* One call at a time on a store that starts empty, initialise_redis with
\* and without force included; a client may die inside any call.
InitLabels == {"init_set", "init_count", "init_delete", "init_zexists", "init_clear"}

NextReset ==
    \/ \E c \in Clients : Quiet(c) /\ Claim(c)
    \/ \E c \in Clients : Quiet(c) /\ Add(c)
    \/ \E c \in Clients : Quiet(c) /\ Initialise(c, BOOLEAN)
    \/ \E c \in Clients : Crash(c)
    \/ Tick

ResetSpec == Init /\ [][NextReset]_vars

\* The client objects as __init__ leaves them, on an empty store; the
\* clients call connect, disconnect and the data operations of
\* RedisClientBase in any order.
InitHandle ==
    /\ strings = EmptyFcn
    /\ hashes = EmptyFcn
    /\ zsets = [n \in {DOMAIN_ENTRY_BY_TIMESTAMP_SET,
                       DOMAIN_ENTRY_ASSIGNED_TO_NODE_SET} |-> EmptyFcn]
    /\ now = 1
    /\ pc = [c \in Clients |-> "idle"]
    /\ loc = [c \in Clients |-> Loc0]
    /\ done = [c \in Clients |-> Done0]
    /\ won = {}
    /\ skipped = {}
    /\ dirty = [c \in Clients |-> FALSE]
    /\ contended = [c \in Clients |-> FALSE]
    /\ front = [c \in Clients |-> EmptyFcn]
    /\ run = <<>>
    /\ runFront = EmptyFcn
    /\ runOK = FALSE
    /\ added = {}
    /\ allocs = <<>>
    /\ handle = [c \in Clients |-> Unconnected]
    /\ session = [c \in Clients |-> "none"]

NextHandle ==
    \/ \E c \in Clients, hostname \in Hosts, ping \in Pings :
          connect(c, hostname, DEFAULT_PORT, ping)
    \/ \E c \in Clients : disconnect(c)
    \/ \E c \in Clients, value \in {0, 1}, reply \in Replies :
          set_field_value(c, KEY_DOMAIN_ENTRY_ID, value, reply)
    \/ \E c \in Clients, reply \in Replies :
          get_field_value(c, KEY_DOMAIN_ENTRY_ID, reply)
    \/ \E c \in Clients, reply \in Replies :
          field_exists(c, KEY_DOMAIN_ENTRY_ID, reply)
    \/ \E c \in Clients, reply \in Replies :
          increment_field_value(c, KEY_DOMAIN_ENTRY_ID, reply)
    \/ \E c \in Clients, key \in HashKeys, reply \in Replies :
          get_hash_field_value(c, key, "assigned_status", reply)
    \/ \E c \in Clients, key \in HashKeys, reply \in Replies :
          \E value \in {DOMAIN_ASSIGNMENT_STATUS_ASSIGNED,
                        DOMAIN_ASSIGNMENT_STATUS_UNASSIGNED} :
              set_hash_field_value(c, key, "assigned_status", value, reply)
    \/ \E c \in Clients, key \in HashKeys, reply \in Replies :
          \E domain \in Urls :
              set_hash_field_values(c, key,
                  [URL |-> domain, timestamp |-> now,
                   assigned_status |-> DOMAIN_ASSIGNMENT_STATUS_UNASSIGNED,
                   node_assignment |-> ""], reply)

HandleSpec == InitHandle /\ [][NextHandle]_vars

TypeOK ==
    /\ now \in 1..MaxTime
    /\ Len(allocs) <= MaxAdds
    /\ \A c \in Clients : loc[c].i <= Len(loc[c].entries) + 1

\* ------------------------------------------------------------ properties
Unassigned == zsets[DOMAIN_ENTRY_BY_TIMESTAMP_SET]

Assigned == zsets[DOMAIN_ENTRY_ASSIGNED_TO_NODE_SET]

Status(k) == HGet(hashes, k, "assigned_status")

Winners(k) == {c \in Clients : <<c, k>> \in won}

Skippers(k) == {c \in Clients : <<c, k>> \in skipped}

DistinctScores(z) == \A a, b \in DOMAIN z : a # b => z[a] # z[b]

\* C1: each entry is claimed by at most one worker: a claim transaction is
\* committed only on an entry that no claim transaction was committed on
\* before, so no two claim invocations succeed on the same entry key.
C1_AtMostOneClaim ==
    [][\A c \in Clients :
          (pc[c] = "execute" /\ pc'[c] = "hget_url") =>
              /\ loc[c].entry_key \notin DOMAIN Assigned
              /\ \A d \in Clients \ {c} : <<d, loc[c].entry_key>> \notin won]_vars

\* C2: an entry whose record says unassigned is in the unassigned set and not
\* in the assigned set, one whose record says assigned is in the assigned set
\* and not in the unassigned set; never both, never neither.
C2_StatusAgreesWithIndex ==
    \A k \in DOMAIN hashes :
        /\ Status(k) = PyVal(DOMAIN_ASSIGNMENT_STATUS_UNASSIGNED)
              => k \in DOMAIN Unassigned /\ k \notin DOMAIN Assigned
        /\ Status(k) = PyVal(DOMAIN_ASSIGNMENT_STATUS_ASSIGNED)
              => k \in DOMAIN Assigned /\ k \notin DOMAIN Unassigned
        /\ (k \in DOMAIN Unassigned) # (k \in DOMAIN Assigned)

\* C3: once all claim invocations have run to completion, of the invocations
\* that tried an entry exactly one has claimed it and the others have skipped
\* it as already assigned; never zero, never two.
C3_ExactlyOneSuccess ==
    (\A c \in Clients : pc[c] = "idle") =>
        \A t \in won \cup skipped :
            /\ Cardinality(Winners(t[2])) = 1
            /\ Cardinality(Skippers(t[2])) =
                   Cardinality(Winners(t[2]) \cup Skippers(t[2])) - 1

\* C4: oldest first: an invocation that no other worker contends with, on an
\* unassigned set of pairwise distinct timestamps, claims the entry whose
\* timestamp was the smallest of the set when the invocation read it.
C4_OldestFirst ==
    \A c \in Clients :
        (pc[c] = "hget_url" /\ ~contended[c] /\ DistinctScores(front[c])) =>
            /\ loc[c].entry_key \in DOMAIN front[c]
            /\ \A m \in DOMAIN front[c] \ {loc[c].entry_key} :
                   front[c][loc[c].entry_key] < front[c][m]

C4_Witness ==
    \E c \in Clients :
        /\ pc[c] = "hget_url"
        /\ ~contended[c]
        /\ DistinctScores(front[c])
        /\ Cardinality(DOMAIN front[c]) >= 2

\* C5: K+1 consecutive claim invocations with no other activity, on K published
\* entries of distinct timestamps: the j-th reports the entry with the j-th
\* smallest timestamp, which is then assigned, in the assigned set and out of
\* the unassigned set; the (K+1)-th reports that there is no unassigned entry.
C5_SequentialScenario ==
    (runOK /\ DistinctScores(runFront)) =>
        \A j \in 1..Len(run) :
            IF j <= Cardinality(DOMAIN runFront)
            THEN /\ run[j] \in DOMAIN runFront
                 /\ Cardinality({m \in DOMAIN runFront :
                                    runFront[m] < runFront[run[j]]}) = j - 1
                 /\ Status(run[j]) = PyVal(DOMAIN_ASSIGNMENT_STATUS_ASSIGNED)
                 /\ run[j] \in DOMAIN Assigned
                 /\ run[j] \notin DOMAIN Unassigned
            ELSE run[j] = ""

C5_Witness ==
    /\ runOK
    /\ DistinctScores(runFront)
    /\ Cardinality(DOMAIN runFront) = 2
    /\ Len(run) = 3

\* C6: when another client has written the entry's record since the worker
\* watched it, the worker's commit aborts: the store is left as it is and the
\* worker goes on to its next candidate.
C6_ConflictAborts ==
    [][\A c \in Clients :
          (pc[c] = "execute" /\ dirty[c] /\ pc'[c] \notin {"execute", "crashed"}) =>
              /\ pc'[c] = "for"
              /\ hashes' = hashes
              /\ zsets' = zsets]_vars

\* C7: a worker that dies inside a claim invocation before its commit has
\* changed nothing in the store, whichever step it had reached, and an entry
\* it was attempting that is still in the unassigned set gets claimed by
\* another worker all the same.
C7_CrashLeavesStore ==
    /\ [][\A c \in Clients :
             (/\ pc[c] \in {"idle", "for", "hget_status", "hget_timestamp", "execute"}
              /\ pc'[c] \in {"for", "hget_status", "hget_timestamp", "execute", "crashed"}
              /\ pc'[c] # pc[c])
                 => store' = store]_vars
    /\ \A c \in Clients : \A n \in 1..MaxAdds :
          (/\ pc[c] = "crashed"
           /\ loc[c].entry_key = Key(PyVal(n))
           /\ Key(PyVal(n)) \in DOMAIN Unassigned)
             ~> (Key(PyVal(n)) \in DOMAIN Assigned)

C7_Witness ==
    \E c \in Clients : \E d \in Clients \ {c} :
        /\ pc[c] = "crashed"
        /\ loc[c].entry_key # ""
        /\ <<c, loc[c].entry_key>> \notin won
        /\ <<d, loc[c].entry_key>> \in won
        /\ Status(loc[c].entry_key) = PyVal(DOMAIN_ASSIGNMENT_STATUS_ASSIGNED)

\* C8: a claim invocation whose commit succeeded returns the entry it claimed,
\* so that its result differs from the result of an invocation that claimed
\* nothing.
C8_ResultTellsOutcome ==
    \A c \in Clients :
        (/\ done[c].op = "claim"
         /\ done[c].printed # <<>>
         /\ done[c].printed[1].msg = "Locked and moved entry")
            => done[c].ret = PyVal(done[c].printed[1].key)

\* C9: no entry is lost: once every add_domain_entry call has completed, the
\* workers have emptied the unassigned set and every client is at rest, each
\* URL that was added is held by a record whose status is assigned.
C9_NoEntryLost ==
    (/\ \A c \in Clients : pc[c] = "idle"
     /\ Len(allocs) = MaxAdds
     /\ DOMAIN Unassigned = {})
        => \A u \in added :
              \E k \in DOMAIN hashes :
                  /\ HGet(hashes, k, "URL") = PyVal(u)
                  /\ Status(k) = PyVal(DOMAIN_ASSIGNMENT_STATUS_ASSIGNED)

\* C10: no two id allocations return the same value, so that no two
\* add_domain_entry calls write the same entry key.
C10_IdsNeverCollide ==
    \A i, j \in DOMAIN allocs :
        i # j => allocs[i] # allocs[j] /\ Key(allocs[i]) # Key(allocs[j])

C12_AbsentKeyCreated ==
    [][Len(allocs') = Len(allocs) + 1 =>
          /\ allocs'[Len(allocs')] # PyNone
          /\ KEY_DOMAIN_ENTRY_ID \notin DOMAIN strings =>
                 /\ allocs'[Len(allocs')] = PyVal(1)
                 /\ KEY_DOMAIN_ENTRY_ID \in DOMAIN strings'
                 /\ strings'[KEY_DOMAIN_ENTRY_ID] = 1]_vars

\* C13: add_domain_entry(url) writes the record under a key that held no
\* record, all four fields in one command, so that no state of the store
\* shows a record with only some of them; when the call completes the record
\* holds URL = url, timestamp = the time the call took, assigned_status =
\* unassigned and node_assignment = "", and the key is in the unassigned set
\* with the record's timestamp as its score.
C13_EntryCreated ==
    /\ [](\A k \in DOMAIN hashes :
              DOMAIN hashes[k] =
                  {"URL", "timestamp", "assigned_status", "node_assignment"})
    /\ [][\A c \in Clients :
             (pc[c] = "add_hset" /\ pc'[c] = "add_zadd") =>
                 loc[c].entry_key \notin DOMAIN hashes]_vars
    /\ [][\A c \in Clients :
             (pc[c] = "add_zadd" /\ pc'[c] = "idle") =>
                 /\ loc[c].entry_key \in DOMAIN hashes'
                 /\ hashes'[loc[c].entry_key] =
                        [URL |-> loc[c].domain,
                         timestamp |-> loc[c].timestamp,
                         assigned_status |-> DOMAIN_ASSIGNMENT_STATUS_UNASSIGNED,
                         node_assignment |-> ""]
                 /\ loc[c].entry_key \in DOMAIN Unassigned'
                 /\ Unassigned'[loc[c].entry_key] =
                        hashes'[loc[c].entry_key].timestamp]_vars

\* C14: the status of an entry only moves from unassigned to assigned: no
\* step of add_domain_entry, of a claim invocation or of
\* initialise_redis(force=False) takes the record under an entry key from
\* assigned back to unassigned.
C14_NoReverseTransition ==
    [][\A k \in DOMAIN hashes :
          Status(k) = PyVal(DOMAIN_ASSIGNMENT_STATUS_ASSIGNED) =>
              HGet(hashes', k, "assigned_status") #
                  PyVal(DOMAIN_ASSIGNMENT_STATUS_UNASSIGNED)]_vars

\* The store after a full reset: counter 0, no entry record, both sets empty.
FullyReset(s, h, z) ==
    /\ KEY_DOMAIN_ENTRY_ID \in DOMAIN s
    /\ s[KEY_DOMAIN_ENTRY_ID] = 0
    /\ DOMAIN h \cap EntryKeys = {}
    /\ DOMAIN z[DOMAIN_ENTRY_BY_TIMESTAMP_SET] = {}
    /\ DOMAIN z[DOMAIN_ENTRY_ASSIGNED_TO_NODE_SET] = {}

\* C15: when initialise_redis(force=True) returns, whatever the store held
\* before, the id counter reads 0, no entry record exists, the unassigned set
\* is empty and the assigned set is empty.
C15_ForcedResetComplete ==
    [][\A c \in Clients :
          (pc[c] \in InitLabels /\ loc[c].force /\ pc'[c] = "idle") =>
              FullyReset(strings', hashes', zsets')]_vars

\* C16: initialise_redis(force=True) is all or nothing: a step of the call
\* that changes the counter, the entry records or a set leaves all of them
\* reset, so that no client, and nobody looking after the caller has died
\* part-way, finds only part of them reset.
C16_ForcedResetAtomic ==
    [][\A c \in Clients :
          (/\ pc[c] \in InitLabels
           /\ pc'[c] # pc[c]
           /\ loc[c].force
           /\ store' # store) =>
              FullyReset(strings', hashes', zsets')]_vars

\* C17: initialise_redis(force=False) creates the id counter at 0 when it is
\* absent and changes nothing else: no step of it changes an existing counter
\* value, an entry record or a set.  When it returns the counter exists, and
\* a call that finds the counter goes on without a write, so that a second
\* call right after the first changes nothing at all.
C17_GentleInitIdempotent ==
    /\ [][\A c \in Clients :
             (/\ pc[c] \in InitLabels
              /\ pc'[c] \notin {pc[c], "crashed"}
              /\ ~loc[c].force) =>
                 /\ hashes' = hashes
                 /\ zsets' = zsets
                 /\ \/ strings' = strings
                    \/ /\ KEY_DOMAIN_ENTRY_ID \notin DOMAIN strings
                       /\ strings' = Put(strings, KEY_DOMAIN_ENTRY_ID, 0)
                 /\ pc'[c] = "idle" => KEY_DOMAIN_ENTRY_ID \in DOMAIN strings']_vars
    /\ [][\A c \in Clients :
             (/\ pc[c] = "idle"
              /\ pc'[c] \in InitLabels
              /\ ~loc'[c].force
              /\ KEY_DOMAIN_ENTRY_ID \in DOMAIN strings) => pc'[c] # "init_set"]_vars

\* C18: a claim invocation that fails, reading a candidate whose record is
\* missing included, ends with the adapter's operation error (RuntimeError)
\* and the failing step leaves the records and both sets as they were.
C18_ClaimFailureSurfaced ==
    [][\A c \in Clients :
          (pc[c] \in ClaimLabels /\ done'[c].op = "claim" /\ done'[c].raised # "") =>
              /\ done'[c].raised = "RuntimeError"
              /\ hashes' = hashes
              /\ zsets' = zsets]_vars

DataOps ==
    {"set_field_value", "get_field_value", "field_exists", "increment_field_value",
     "get_hash_field_value", "set_hash_field_value", "set_hash_field_values"}

\* C19: every data operation of RedisClientBase called on a client object
\* without an active connection (never connected, connect failed, or
\* disconnected) fails with the no-connection error and performs no store
\* operation.
C19_NotConnectedFails ==
    [][\A c \in Clients :
          (done'[c].op \in DataOps /\ session[c] # "open") =>
              /\ done'[c].raised = "RuntimeError"
              /\ done'[c].args = NO_CONNECTION
              /\ store' = store]_vars

\* C20: connect either returns success with a pinged connection or raises a
\* connection error carrying host, port and cause; it never returns a false
\* status, and after a failed health check the client object does not look
\* connected to the data operations.
C20_ConnectTwoOutcomes ==
    [][\A c \in Clients :
          done'[c].op = "connect" =>
              \/ /\ done'[c].raised = ""
                 /\ done'[c].ret = PyVal(TRUE)
                 /\ handle'[c].client = "Redis"
                 /\ session'[c] = "open"
              \/ /\ done'[c].raised = "RuntimeError"
                 /\ DOMAIN done'[c].args = {"msg", "host", "port", "reason"}
                 /\ handle'[c].client = "None"]_vars

\* The number of round trips a claim invocation can still make, at most:
\* five for every candidate not yet passed, less those already made for the
\* current one.
ClaimRank(label) ==
    CASE label = "for" -> 4
      [] label = "hget_status" -> 3
      [] label = "hget_timestamp" -> 2
      [] label = "execute" -> 1
      [] OTHER -> 0

ClaimPot(c) ==
    IF pc[c] \in ClaimLabels
    THEN 5 * (Len(loc[c].entries) + 1 - loc[c].i) + ClaimRank(pc[c])
    ELSE 0

\* C21: a claim invocation is a single pass that always terminates.  Every
\* step of an invocation keeps the snapshot it read, lowers the bound on the
\* round trips left, watches only the candidate at the current index of the
\* snapshot, moves to the next index (never back to the same entry) when it
\* leaves a candidate without a commit, ends after its first commit, and
\* when the snapshot is exhausted reports "none available" without reading
\* the unassigned set again, whatever the other workers do.
C21_SinglePass ==
    [][\A c \in Clients :
          (pc[c] \in ClaimLabels /\ (pc'[c] # pc[c] \/ loc'[c] # loc[c])) =>
              /\ pc'[c] \in ClaimLabels => loc'[c].entries = loc[c].entries
              /\ ClaimPot(c)' < ClaimPot(c)
              /\ pc'[c] = "hget_status" =>
                    /\ pc[c] = "for"
                    /\ loc[c].i <= Len(loc[c].entries)
                    /\ loc'[c].i = loc[c].i
                    /\ loc'[c].entry_key = loc[c].entries[loc[c].i]
              /\ pc'[c] = "for" =>
                    /\ pc[c] = "hget_status"
                    /\ loc'[c].i = loc[c].i + 1
              /\ pc'[c] = "hget_url" =>
                    /\ pc[c] = "execute"
                    /\ loc'[c].i = loc[c].i
              /\ pc[c] = "hget_url" => pc'[c] \in {"idle", "crashed"}
              /\ (pc[c] = "for" /\ loc[c].i > Len(loc[c].entries)) =>
                    \/ pc'[c] = "crashed"
                    \/ /\ pc'[c] = "idle"
                       /\ done'[c].raised = ""
                       /\ done'[c].printed[1].msg = "No unassigned entries found."]_vars

\* An invocation has passed both candidates of its snapshot while another
\* worker was claiming, and is about to report "none available".
C21_Witness ==
    \E c \in Clients :
        /\ pc[c] = "for"
        /\ Len(loc[c].entries) = 2
        /\ loc[c].i = 3
        /\ contended[c]

\* C22: a claim invocation never passes over work that is still available.
\* With no forced reset and the counter initialised, every candidate of its
\* snapshot that an invocation has moved past without claiming has status
\* 'assigned' in the store from the moment it is passed: so when the
\* invocation claims an entry every candidate ordered before it is assigned,
\* and when it reports "none available" every entry of the snapshot is.
C22_NoWorkPassedOver ==
    \A c \in Clients :
        pc[c] \in ClaimLabels =>
            \A j \in 1..Len(loc[c].entries) :
                j < loc[c].i =>
                    Status(loc[c].entries[j]) =
                        PyVal(DOMAIN_ASSIGNMENT_STATUS_ASSIGNED)

\* An invocation has committed the second candidate of its snapshot after
\* moving past the first.
C22_Witness ==
    \E c \in Clients :
        /\ pc[c] = "hget_url"
        /\ loc[c].i = 2
        /\ <<c, loc[c].entries[1]>> \in skipped

\* C23: in every reachable state each member of the unassigned set and each
\* member of the assigned set has a score equal to the timestamp field of
\* its entry record, and a successful claim adds the entry to the assigned
\* set with exactly the score it had in the unassigned set.
C23_ScoreIsTimestamp ==
    /\ [](\A z \in {Unassigned, Assigned} :
            \A k \in DOMAIN z : HGet(hashes, k, "timestamp") = PyVal(z[k]))
    /\ [][\A c \in Clients :
            (pc[c] = "execute" /\ pc'[c] = "hget_url") =>
                LET k == loc[c].entry_key
                IN  /\ k \in DOMAIN Assigned'
                    /\ k \in DOMAIN front[c]
                    /\ Assigned'[k] = front[c][k]]_vars

\* C24: referential integrity of the frontier.  In every reachable state,
\* under any sequence of add_domain_entry, claim and initialise_redis calls
\* (force true or false), every member of the unassigned set and every
\* member of the assigned set is the key of an existing entry record, so a
\* claim invocation never meets a candidate whose status field is absent.
C24_MembersHaveRecords ==
    /\ [](\A k \in DOMAIN Unassigned \cup DOMAIN Assigned : k \in DOMAIN hashes)
    /\ [](\A c \in Clients :
            pc[c] = "hget_status" => Status(loc[c].entry_key) # PyNone)

\* C25: frame of a claim.  A step of a claim invocation other than its
\* commit changes nothing in the store, an invocation commits at most once
\* and one that reports "none available" has not committed; the commit
\* changes, for the entry it claims, only assigned_status and the entry's
\* membership in the two sets (URL, timestamp and node_assignment are as
\* before, node_assignment still empty), and leaves every other record,
\* every other member and score of both sets, and the id counter unchanged.
C25_ClaimFrame ==
    [][\A c \in Clients :
          (/\ pc[c] \in ClaimLabels \cup {"idle"}
           /\ pc'[c] \in ClaimLabels \cup {"idle"}
           /\ pc'[c] # pc[c]) =>
              LET k == loc[c].entry_key
              IN  /\ pc'[c] = "for" => pc[c] \in {"idle", "hget_status"}
                  /\ pc'[c] = "hget_status" => pc[c] = "for"
                  /\ pc[c] = "hget_url" => pc'[c] = "idle"
                  /\ strings' = strings
                  /\ IF pc[c] = "execute"
                     THEN /\ DOMAIN hashes' = DOMAIN hashes \cup {k}
                          /\ \A e \in DOMAIN hashes \ {k} : hashes'[e] = hashes[e]
                          /\ \A f \in {"URL", "timestamp", "node_assignment"} :
                                HGet(hashes', k, f) = HGet(hashes, k, f)
                          /\ k \in DOMAIN hashes =>
                                /\ DOMAIN hashes'[k] = DOMAIN hashes[k]
                                /\ HGet(hashes', k, "node_assignment") = PyVal("")
                          /\ Status(k)' = PyVal(DOMAIN_ASSIGNMENT_STATUS_ASSIGNED)
                          /\ k \notin DOMAIN Unassigned'
                          /\ k \in DOMAIN Assigned'
                          /\ \A name \in DOMAIN zsets :
                                /\ DOMAIN zsets'[name] \ {k} = DOMAIN zsets[name] \ {k}
                                /\ \A e \in DOMAIN zsets[name] \ {k} :
                                      zsets'[name][e] = zsets[name][e]
                     ELSE store' = store]_vars

\* An invocation has committed one entry while a second entry, added by
\* another call, is still unassigned.
C25_Witness ==
    \E c \in Clients :
        /\ pc[c] = "hget_url"
        /\ HGet(hashes, loc[c].entry_key, "node_assignment") = PyVal("")
        /\ \E e \in DOMAIN Unassigned :
              /\ e # loc[c].entry_key
              /\ Status(e) = PyVal(DOMAIN_ASSIGNMENT_STATUS_UNASSIGNED)

====
